---- MODULE Spec2Model ----
(***************************************************************************)
(* Model of the Notion -> Supabase synchronisation engine                  *)
(* (src/notion/notion_supabase_sync.py) and of the junction-table          *)
(* materializer (src/process/supabase_relations_creator.py).               *)
(*                                                                         *)
(* Eight specifications share the module:                                  *)
(*   SyncSpec   : one destination table kept in sync with one Notion       *)
(*                database (watermark, pagination, DDL, upsert).           *)
(*   RelSpec    : materialization passes over the relation configuration.  *)
(*   CycleSpec  : main, run_continuous and run_sync_cycle of the sync      *)
(*                runner (setup, passes over the tables, exit status).     *)
(*   ApiSpec    : _notion_api_call under two callers.                      *)
(*   SocialSpec : the raw social-API fetch and its backoff                 *)
(*                (src/social_client/social_api_client.py).                *)
(*   PagedSpec  : SyncSpec with a source that changes between syncs only,  *)
(*                under fairness of the steps of sync_database.            *)
(*   WriteSpec  : one call of _upsert_rows, batch by batch.                *)
(*   NormSpec   : one call of _transform_page_to_row on property names.    *)
(***************************************************************************)
EXTENDS Integers, Sequences, FiniteSets, TLC

(***************************************************************************)
(* Bounds of the model.                                                    *)
(***************************************************************************)
MaxTime == 2
MaxEdits == 2
MaxSyncs == 3

\* self.page_size (config["notion"]["page_size"]); one record per page here
PageSize == 1

Ids == {"r1", "r2"}
IdRank == [r1 |-> 1, r2 |-> 2]
\* scalar values a Notion property can carry after _extract_property_value:
\* None, an int, a str
Vals == {"null", "i1", "tx"}
PropNames == {"p", "q"}
SysCols == {"notion_id", "created_time", "last_edited_time", "archived"}

VARIABLES
    \* ---- the Notion database (external source) ----
    src,        \* [existing ids -> [ctime, mtime, props]]
    srcProps,   \* the property names of the Notion database schema
    clock,      \* the source's clock (last_edited_time granularity)
    edits,      \* number of source changes so far
    \* ---- the destination table ----
    tbl,        \* [exists, cols: name -> type, rows: set of rows]
    \* ---- sync_database locals ----
    pc, force, lastSync, allRows, cursor,
    \* ---- history of the syncs ----
    syncs,      \* number of syncs started
    preTbl,     \* the destination table when the current/last sync started
    fetchOk,    \* no schema or page fetch failed in the current/last sync
    writeOk,    \* the last write raised no exception
    wrote,      \* the current/last sync reached _upsert_rows
    tainted,    \* the source changed while the current/last sync ran
    quiet,      \* completed syncs in a row over an unchanged source
    prevForce, prevFetchOk

syncVars == <<src, srcProps, clock, edits, tbl, pc, force, lastSync, allRows,
              cursor, syncs, preTbl, fetchOk, writeOk, wrote, tainted, quiet,
              prevForce, prevFetchOk>>

\* number of relation specs in notion_database_relations.json
MaxSpecs == 2
\* materialization passes and changes of the base tables between them
MaxPasses == 2
MaxOriginChanges == 1
\* statements the database refuses for a reason of its own
MaxDbFailures == 1

VARIABLES
    \* ---- configuration, loaded by load_notion_data ----
    relSpecs,   \* sequence of [origin, field, related] (database ids)
    \* ---- the destination database ----
    origin,     \* base tables: name -> [rows: notion_id -> notion_data_jsonb]
    jt,         \* junction tables: existing name -> [cols, rows (row -> copies)]
    master,     \* notion_relations_master: [exists, rows]
    \* ---- create_all_relations ----
    rpc, dedup, runResult,
    \* ---- history of the current/last pass ----
    passes, originChanges, dbFailures,
    droppedNames,   \* names DROP TABLE was issued for
    createdFor,     \* spec index -> names CREATE TABLE was issued for
    insertedFor,    \* spec index -> names an INSERT was executed on
    warnedFor,      \* spec indexes a warning was logged about
    failedFor,      \* spec indexes whose INSERT raised (caught)
    fresh           \* no base table changed since the pass started

relVars == <<relSpecs, origin, jt, master, rpc, dedup, runResult, passes,
             originChanges, dbFailures, droppedNames, createdFor, insertedFor, warnedFor,
             failedFor, fresh>>

\* sync cycles run by one process
MaxCycles == 2

VARIABLES
    \* ---- command line and environment of the sync runner ----
    once, fullSync, \* --once, --full-sync
    configState,    \* config.json: "ok", "no_file", "no_token"
    dbEnv,          \* destination: "ok", "missing_env", "refused"
    databases,      \* self.databases: the tables with replication = true
    \* ---- main / run_continuous ----
    mpc, exitStatus, firstRun, cycles,
    \* ---- history of the current/last run_sync_cycle ----
    cycleForce,     \* its force_full_sync argument
    cycleOutcomes,  \* what the sync of each table would meet
    cycleRaised,    \* the call ended with an exception
    attempted,      \* the tables sync_database was called for, in order
    forcedTables,   \* those called with force_full_sync = True
    syncedCount,    \* synced_count
    reported        \* the summary logged: <<synced, total>>, <<>> when none

cycVars == <<once, fullSync, configState, dbEnv, databases, mpc, exitStatus,
             firstRun, cycles, cycleForce, cycleOutcomes, cycleRaised, attempted,
             forcedTables, syncedCount, reported>>

\* the clock of the callers of the Notion client and their calls
MaxNow == 4
MaxCalls == 2

VARIABLES
    \* ---- _notion_api_call under concurrent callers ----
    now,        \* time, in units of RateUnit
    apc,        \* caller -> "idle", "sleeping", "returned", "raised"
    sleepStart, \* caller -> time its time.sleep started
    calls,      \* caller -> calls made so far
    requests,   \* caller -> requests issued in its current/last call
    outcome,    \* caller -> what its last request met
    returned,   \* caller -> the value its last call returned
    lastSent,   \* time of the last request issued, -1 when none
    minGap      \* the least time between two consecutive requests so far

apiVars == <<now, apc, sleepStart, calls, requests, outcome, returned, lastSent, minGap>>

VARIABLES
    \* ---- process_all_endpoints / get_api_data ----
    endpoints,  \* the endpoints of the configuration, in order
    ep,         \* index of the endpoint in progress
    spc,        \* "next", "attempt", "sleep", "done"
    attempt,    \* the loop variable of get_api_data (0-based)
    tried,      \* endpoint index -> requests issued for it
    waits,      \* endpoint index -> the sleeps taken for it, in order
    fetched     \* endpoint index -> "data", "None", "pending"

socVars == <<endpoints, ep, spc, attempt, tried, waits, fetched>>

\* rows handed to one call of _upsert_rows
MaxRecords == 4
\* batch_size (100 in the code), scaled to the rows of the model
batch_size == 2

VARIABLES
    \* ---- one call of _upsert_rows ----
    wRows,          \* the rows of the call
    wPre,           \* the destination table before _create_or_alter_table
    wTbl,           \* the destination table
    wpc,            \* "call", "batches", "returned", "raised"
    wi,             \* index of the first record of the next batch (1-based)
    total_upserted, \* the local of that name
    returnedCount,  \* the value returned, -1 when none
    executed,       \* the batch numbers executemany was called for
    loggedBatch,    \* the batch number of the error message, 0 when none
    loggedRecord    \* "First record in failed batch", <<>> when none

wrtVars == <<wRows, wPre, wTbl, wpc, wi, total_upserted, returnedCount, executed,
             loggedBatch, loggedRecord>>

\* length of the property names, in characters
MaxNameLen == 3

VARIABLES
    \* ---- one call of _transform_page_to_row ----
    nProps,     \* page["properties"]: sequence of [name, value], in dict order
    nRow,       \* the row returned: column name -> value
    npc         \* "page", "row"

nrmVars == <<nProps, nRow, npc>>

vars == <<syncVars, relVars, cycVars, apiVars, socVars, wrtVars, nrmVars>>

\* what an action of one component leaves alone
notSync == <<relVars, cycVars, apiVars, socVars, wrtVars, nrmVars>>
notRel == <<syncVars, cycVars, apiVars, socVars, wrtVars, nrmVars>>
notCyc == <<syncVars, relVars, apiVars, socVars, wrtVars, nrmVars>>
notApi == <<syncVars, relVars, cycVars, socVars, wrtVars, nrmVars>>
notSoc == <<syncVars, relVars, cycVars, apiVars, wrtVars, nrmVars>>
notWrt == <<syncVars, relVars, cycVars, apiVars, socVars, nrmVars>>
notNrm == <<syncVars, relVars, cycVars, apiVars, socVars, wrtVars>>

(***************************************************************************)
(* Helpers                                                                 *)
(***************************************************************************)
Max(S) == CHOOSE x \in S : \A y \in S : y <= x
Min(S) == CHOOSE x \in S : \A y \in S : x <= y

EmptyFcn == [x \in {} |-> "null"]
NoTable == [exists |-> FALSE, cols |-> EmptyFcn, rows |-> {}]

\* dict(row) updated with another dict: keys of b win
Merge(a, b) == [k \in DOMAIN a \cup DOMAIN b |-> IF k \in DOMAIN b THEN b[k] ELSE a[k]]

(***************************************************************************)
(* _get_postgres_type.  The Python type of a value is known from where it  *)
(* comes from: the timestamps are ISO strings (which parse), archived is a *)
(* bool, notion_id a plain str, a property value is None, an int or a str. *)
(***************************************************************************)
IsNone(col, v) == col \in PropNames /\ v = "null"

GetPostgresType(col, v) ==
    IF col = "archived" THEN "boolean"
    ELSE IF col \in {"created_time", "last_edited_time"} THEN "timestamp with time zone"
    ELSE IF col = "notion_id" THEN "text"
    ELSE IF v = "null" THEN "text"
    ELSE IF v = "i1" THEN "bigint"
    ELSE "text"

(***************************************************************************)
(* _transform_page_to_row: the four system keys plus one key per scalar    *)
(* property of the page (None stays None).                                 *)
(***************************************************************************)
TransformPageToRow(id, page) ==
    Merge([notion_id |-> id,
           created_time |-> page.ctime,
           last_edited_time |-> page.mtime,
           archived |-> FALSE],
          page.props)

(***************************************************************************)
(* _create_or_alter_table                                                  *)
(***************************************************************************)
AllColumns(rows) == UNION {DOMAIN rows[i] : i \in 1..Len(rows)}

\* the type of the first value of col that is not None, "text" when all are
ColumnType(rows, col) ==
    LET idx == {i \in 1..Len(rows) : col \in DOMAIN rows[i] /\ ~IsNone(col, rows[i][col])}
    IN IF idx = {} THEN "text" ELSE GetPostgresType(col, rows[Min(idx)][col])

SystemTypes ==
    [notion_id |-> "text",
     created_time |-> "timestamp with time zone",
     last_edited_time |-> "timestamp with time zone",
     archived |-> "boolean",
     notion_data_jsonb |-> "jsonb"]

ColumnTypes(rows) ==
    Merge([c \in AllColumns(rows) |-> ColumnType(rows, c)], SystemTypes)

\* variant: the types of the batch replace those of the existing columns
RetypeColumns(t, types) ==
    [exists |-> TRUE,
     cols |-> Merge(t.cols, types),
     rows |-> {Merge(r, [c \in DOMAIN types \ DOMAIN t.cols |-> "null"]) : r \in t.rows}]

\* variant: no ALTER TABLE is issued for an existing table
AddNoColumns(t, types) == [t EXCEPT !.exists = TRUE]

\* ALTER TABLE ADD COLUMN for the names the table lacks; existing rows get NULL
AddMissingColumns(t, types) ==
    LET missing == DOMAIN types \ DOMAIN t.cols
    IN [exists |-> TRUE,
        cols |-> Merge(t.cols, [c \in missing |-> types[c]]),
        rows |-> {Merge(r, [c \in missing |-> "null"]) : r \in t.rows}]

CreateOrAlterTable(t, rows) ==
    IF rows = <<>> THEN t
    ELSE IF ~t.exists
         THEN [exists |-> TRUE, cols |-> ColumnTypes(rows), rows |-> {}]
         ELSE AddMissingColumns(t, ColumnTypes(rows))

(***************************************************************************)
(* _upsert_rows: one INSERT .. ON CONFLICT (notion_id) DO UPDATE statement *)
(* whose column list is that of the first row, run once per record by      *)
(* executemany on an autocommit connection.                                *)
(***************************************************************************)
\* what PostgreSQL stores for a parameter assigned to a column of that type
Store(type, col, v) ==
    IF col \in PropNames /\ type = "text" /\ v = "i1" THEN "t1" ELSE v

\* invalid input syntax: a non-numeric str sent to a bigint column
TypeError(type, col, v) ==
    col \in PropNames /\ type = "bigint" /\ v = "tx"

\* row.get(col) for every column of the statement
RecordOf(columns, row) ==
    [c \in columns |-> IF c \in DOMAIN row THEN row[c] ELSE "null"]

RecordFails(t, rec) ==
    \E c \in DOMAIN rec : c \notin DOMAIN t.cols \/ TypeError(t.cols[c], c, rec[c])

StoredRecord(t, rec) == [c \in DOMAIN rec |-> Store(t.cols[c], c, rec[c])]

\* variant: a plain INSERT into a table without the key constraint
InsertOne(t, rec) ==
    [t EXCEPT !.rows = t.rows \cup
        {Merge([c \in DOMAIN t.cols |-> "null"], StoredRecord(t, rec))}]

\* variant: the statement replaces the content of the table by its record
ReplaceAll(t, rec) ==
    [t EXCEPT !.rows = {Merge([c \in DOMAIN t.cols |-> "null"], StoredRecord(t, rec))}]

\* ON CONFLICT (notion_id) DO UPDATE SET every column of the statement but
\* notion_id; else a new row, NULL in the columns the statement does not name
UpsertOne(t, rec) ==
    LET new == StoredRecord(t, rec)
        hit == {r \in t.rows : r["notion_id"] = new["notion_id"]}
    IN IF hit # {}
       THEN [t EXCEPT !.rows = (t.rows \ hit) \cup {Merge(r, new) : r \in hit}]
       ELSE [t EXCEPT !.rows = t.rows \cup
                {Merge([c \in DOMAIN t.cols |-> "null"], new)}]

RECURSIVE ExecuteMany(_, _, _, _)
\* records i..Len(rows) one statement each; the first failing one raises and
\* what was executed before it stays (autocommit)
ExecuteMany(t, columns, rows, i) ==
    IF i > Len(rows) THEN [tbl |-> t, ok |-> TRUE, n |-> Len(rows)]
    ELSE LET rec == RecordOf(columns, rows[i])
         IN IF RecordFails(t, rec)
            THEN [tbl |-> t, ok |-> FALSE, n |-> i - 1]
            ELSE ExecuteMany(UpsertOne(t, rec), columns, rows, i + 1)

UpsertRows(t, rows) ==
    IF rows = <<>> THEN [tbl |-> t, ok |-> TRUE, n |-> 0]
    ELSE ExecuteMany(t, DOMAIN rows[1], rows, 1)

(***************************************************************************)
(* _get_last_sync_time: MAX(last_edited_time), None (0) when the table is  *)
(* absent or empty.                                                        *)
(***************************************************************************)
GetLastSyncTime(t) ==
    IF ~t.exists \/ t.rows = {} THEN 0
    ELSE Max({r["last_edited_time"] : r \in t.rows})

\* sync_database: the watermark is not read on a forced full sync
LastSync(f, t) == IF f THEN 0 ELSE GetLastSyncTime(t)

(***************************************************************************)
(* _query_database: the pages of the database, in a fixed order, after the *)
(* cursor, restricted by the last_edited_time "after" filter when given.   *)
(***************************************************************************)
\* variant: an inclusive filter (on_or_after)
MatchesOnOrAfter(page, filterAfter) == filterAfter = 0 \/ page.mtime >= filterAfter

Matches(page, filterAfter) == filterAfter = 0 \/ page.mtime > filterAfter

Pending(s, cur, filterAfter) ==
    {id \in DOMAIN s : IdRank[id] > cur /\ Matches(s[id], filterAfter)}

RECURSIVE TakeInOrder(_, _)
TakeInOrder(S, n) ==
    IF n = 0 \/ S = {} THEN <<>>
    ELSE LET first == CHOOSE id \in S : \A o \in S : IdRank[id] <= IdRank[o]
         IN <<first>> \o TakeInOrder(S \ {first}, n - 1)

\* variant: the response repeats the cursor of the request
QueryDatabaseSameCursor(s, cur, filterAfter) ==
    LET pend == Pending(s, cur, filterAfter)
        ids == TakeInOrder(pend, PageSize)
    IN [results |-> ids,
        has_more |-> Cardinality(pend) > Len(ids),
        next_cursor |-> cur]

QueryDatabase(s, cur, filterAfter) ==
    LET pend == Pending(s, cur, filterAfter)
        ids == TakeInOrder(pend, PageSize)
    IN [results |-> ids,
        has_more |-> Cardinality(pend) > Len(ids),
        next_cursor |-> IF ids = <<>> THEN cur ELSE IdRank[ids[Len(ids)]]]

(***************************************************************************)
(* The Notion database changes under its users: pages are created and      *)
(* edited (last_edited_time becomes the current time), a property is added *)
(* to the database (every page then carries it, empty), time passes.       *)
(***************************************************************************)
SourceChanged ==
    /\ edits' = edits + 1
    /\ tainted' = (pc # "idle")
    /\ quiet' = 0
    /\ UNCHANGED <<tbl, pc, force, lastSync, allRows, cursor, syncs, preTbl,
                   fetchOk, writeOk, wrote, prevForce, prevFetchOk>>
    /\ UNCHANGED notSync

SrcCreate(id, v) ==
    /\ edits < MaxEdits
    /\ id \notin DOMAIN src
    /\ src' = Merge(src, [i \in {id} |->
                [ctime |-> clock, mtime |-> clock,
                 props |-> [n \in srcProps |-> IF n = "p" THEN v ELSE "null"]]])
    /\ UNCHANGED <<srcProps, clock>>
    /\ SourceChanged

SrcEdit(id, n, v) ==
    /\ edits < MaxEdits
    /\ id \in DOMAIN src
    /\ n \in srcProps
    /\ src[id].props[n] # v
    /\ src' = [src EXCEPT ![id].props[n] = v, ![id].mtime = clock]
    /\ UNCHANGED <<srcProps, clock>>
    /\ SourceChanged

SrcAddProperty ==
    /\ edits < MaxEdits
    /\ "q" \notin srcProps
    /\ srcProps' = srcProps \cup {"q"}
    /\ src' = [id \in DOMAIN src |->
                 [src[id] EXCEPT !.props = Merge(@, [n \in {"q"} |-> "null"])]]
    /\ UNCHANGED clock
    /\ SourceChanged

Tick ==
    /\ clock < MaxTime
    /\ clock' = clock + 1
    /\ UNCHANGED <<src, srcProps, edits, tbl, pc, force, lastSync, allRows,
                   cursor, syncs, preTbl, fetchOk, writeOk, wrote, tainted,
                   quiet, prevForce, prevFetchOk>>
    /\ UNCHANGED notSync

(***************************************************************************)
(* sync_database                                                           *)
(***************************************************************************)
\* lines 485-504: read the watermark, fetch the database schema
StartSync(f, schemaOk) ==
    /\ pc = "idle"
    /\ syncs < MaxSyncs
    /\ syncs' = syncs + 1
    /\ force' = f
    /\ lastSync' = LastSync(f, tbl)
    /\ preTbl' = tbl
    /\ prevForce' = force
    /\ prevFetchOk' = fetchOk
    /\ allRows' = <<>>
    /\ cursor' = 0
    /\ tainted' = FALSE
    /\ wrote' = FALSE
    /\ writeOk' = TRUE
    /\ fetchOk' = schemaOk
    /\ IF schemaOk
       THEN pc' = "fetch" /\ UNCHANGED quiet
       ELSE pc' = "idle" /\ quiet' = IF quiet < 2 THEN quiet + 1 ELSE 2
    /\ UNCHANGED <<src, srcProps, clock, edits, tbl>>
    /\ UNCHANGED notSync

\* lines 512-529: one round of the while has_more loop
FetchPage(ok) ==
    /\ pc = "fetch"
    /\ IF ~ok
       THEN /\ fetchOk' = FALSE
            /\ pc' = "write"
            /\ UNCHANGED <<allRows, cursor>>
       ELSE LET result == QueryDatabase(src, cursor, lastSync)
            IN /\ allRows' = allRows \o
                     [i \in 1..Len(result.results) |->
                        TransformPageToRow(result.results[i], src[result.results[i]])]
               /\ cursor' = result.next_cursor
               /\ pc' = IF result.has_more THEN "fetch" ELSE "write"
               /\ UNCHANGED fetchOk
    /\ UNCHANGED <<src, srcProps, clock, edits, tbl, force, lastSync, syncs,
                   preTbl, writeOk, wrote, tainted, quiet, prevForce, prevFetchOk>>
    /\ UNCHANGED notSync

\* lines 531-542: nothing fetched: return; else DDL, then the upsert
WriteRows ==
    /\ pc = "write"
    /\ LET res == UpsertRows(CreateOrAlterTable(tbl, allRows), allRows)
       IN /\ tbl' = res.tbl
          /\ writeOk' = res.ok
    /\ wrote' = (allRows # <<>>)
    /\ pc' = "idle"
    /\ quiet' = IF tainted THEN 0 ELSE IF quiet < 2 THEN quiet + 1 ELSE 2
    /\ UNCHANGED <<src, srcProps, clock, edits, force, lastSync, allRows, cursor,
                   syncs, preTbl, fetchOk, tainted, prevForce, prevFetchOk>>
    /\ UNCHANGED notSync

\* the Notion database holds any pages when the program is first run
InitialSources ==
    UNION {[S -> [ctime : {1}, mtime : {1}, props : [{"p"} -> Vals]]] : S \in SUBSET Ids}

SyncStart ==
    /\ src \in InitialSources
    /\ srcProps = {"p"}
    /\ clock = 1
    /\ edits = 0
    /\ tbl = NoTable
    /\ pc = "idle"
    /\ force = FALSE
    /\ lastSync = 0
    /\ allRows = <<>>
    /\ cursor = 0
    /\ syncs = 0
    /\ preTbl = NoTable
    /\ fetchOk = TRUE
    /\ writeOk = TRUE
    /\ wrote = FALSE
    /\ tainted = FALSE
    /\ quiet = 0
    /\ prevForce = FALSE
    /\ prevFetchOk = TRUE

SyncSteps ==
    \/ \E id \in Ids, v \in Vals : SrcCreate(id, v)
    \/ \E id \in Ids, n \in PropNames, v \in Vals : SrcEdit(id, n, v)
    \/ SrcAddProperty
    \/ Tick
    \/ \E f \in BOOLEAN, schemaOk \in BOOLEAN : StartSync(f, schemaOk)
    \/ \E ok \in BOOLEAN : FetchPage(ok)
    \/ WriteRows

(***************************************************************************)
(* Properties of the sync engine                                           *)
(***************************************************************************)
StoredMax(t) ==
    IF t.rows = {} THEN 0 ELSE Max({r["last_edited_time"] : r \in t.rows})

RowsOf(t, id) == {r \in t.rows : r["notion_id"] = id}

Differs(old, row, t) ==
    \E c \in DOMAIN row \ {"notion_id"} :
        c \notin DOMAIN old \/ old[c] # Store(t.cols[c], c, row[c])

UpsertSecondValuesWin ==
    (pc = "idle" /\ wrote /\ writeOk) =>
        \A i \in 1..Len(allRows) :
            LET row == allRows[i]
                X == row["notion_id"]
            IN (\E old \in RowsOf(preTbl, X) : Differs(old, row, tbl)) =>
                  /\ Cardinality(RowsOf(tbl, X)) = 1
                  /\ \A r \in RowsOf(tbl, X) :
                        \A c \in DOMAIN row \ {"notion_id"} :
                            r[c] = Store(tbl.cols[c], c, row[c])

\* C4: Schema monotonicity. No step removes the table, removes a column or
\* changes the type of a column.
SchemaMonotone ==
    [][tbl.exists =>
         /\ tbl'.exists
         /\ \A c \in DOMAIN tbl.cols :
               c \in DOMAIN tbl'.cols /\ tbl'.cols[c] = tbl.cols[c]]_syncVars

\* a sync added column q to an existing table while its rows suggest
\* another type for the existing column p
SchemaMonotoneWitness ==
    /\ pc = "idle" /\ wrote
    /\ preTbl.exists /\ "q" \notin DOMAIN preTbl.cols /\ "q" \in DOMAIN tbl.cols
    /\ "p" \in DOMAIN preTbl.cols
    /\ ColumnType(allRows, "p") # tbl.cols["p"]

\* C13: Watermark monotonicity. No step of a sync, incremental or
\* forced-full, complete or failed, lowers the maximum stored
\* last_edited_time of the table; so the watermark read at the start of a
\* sync is at least the one read at the start of any earlier sync.
WatermarkMonotone ==
    [][GetLastSyncTime(tbl') >= GetLastSyncTime(tbl)]_syncVars

\* a forced-full sync rewrote a row older than the watermark of its start
WatermarkMonotoneWitness ==
    /\ pc = "idle" /\ force /\ wrote /\ writeOk
    /\ GetLastSyncTime(preTbl) = 2
    /\ GetLastSyncTime(tbl) = 2
    /\ \E i \in 1..Len(allRows) : allRows[i]["last_edited_time"] = 1

\* C19: Page-at-a-time processing. While a sync runs it never holds the
\* rows of more than one fetched page that are not yet written.
PageAtATime ==
    pc \in {"fetch", "write"} => Len(allRows) <= PageSize

\* C20: Batch atomicity on write. When the batch of a write fails, none of
\* its rows is applied: the rows of the destination are those it held
\* before the write (with the columns the DDL added).
BatchAtomic ==
    (pc = "idle" /\ wrote /\ ~writeOk) =>
        tbl = CreateOrAlterTable(preTbl, allRows)

\* C26: Pagination order and termination. The rows of a sync stand in
\* cursor order, each page once; the fetching goes on while has_more is
\* true and ends at the first response without more pages or at the first
\* failed fetch: when it ended without a failure over a source that did not
\* change meanwhile, no matching page is left out; and every sync that
\* started fetching comes to its end.
PaginationOrdered ==
    /\ \A i, j \in 1..Len(allRows) :
          i < j => IdRank[allRows[i]["notion_id"]] < IdRank[allRows[j]["notion_id"]]
    /\ (pc = "fetch") => fetchOk
    /\ (pc = "write" /\ fetchOk /\ ~tainted) =>
          /\ Pending(src, cursor, lastSync) = {}
          /\ {allRows[i]["notion_id"] : i \in 1..Len(allRows)} = Pending(src, 0, lastSync)

PaginationTerminates ==
    []PaginationOrdered /\ ((pc = "fetch") ~> (pc = "idle"))

\* a sync over two pages that ended after the second response
PaginationTerminatesWitness ==
    /\ pc = "idle" /\ fetchOk /\ wrote
    /\ Len(allRows) = 2
    /\ cursor = 2

\* the destination holds the record with its latest values
UpToDate(id) ==
    \E r \in RowsOf(tbl, id) :
        /\ r["last_edited_time"] = src[id].mtime
        /\ \A n \in srcProps :
              n \in DOMAIN r /\ r[n] = Store(tbl.cols[n], n, src[id].props[n])

\* C27: No permanent data gap. After an incremental sync in which every
\* fetch succeeded and the write raised no error, over a source that did
\* not change while it ran, every source record is in the destination with
\* its latest values, whatever the syncs before it were.
NoDataGap ==
    (pc = "idle" /\ syncs > 0 /\ ~force /\ fetchOk /\ writeOk /\ quiet >= 1) =>
        \A id \in DOMAIN src : UpToDate(id)

Conflicting ==
    {i \in 1..Len(allRows) :
        \E c \in DOMAIN allRows[i] \cap PropNames :
            /\ preTbl.exists /\ c \in DOMAIN preTbl.cols
            /\ TypeError(preTbl.cols[c], c, allRows[i][c])}

\* C21: Schema conflicts are absorbed. When a written row carries a value
\* whose type does not match the existing column, the write raises no error
\* and the row is stored with the value in its overflow blob.
SchemaConflictAbsorbed ==
    (pc = "idle" /\ wrote /\ Conflicting # {}) =>
        /\ writeOk
        /\ \A i \in Conflicting :
              \E r \in RowsOf(tbl, allRows[i]["notion_id"]) :
                  r["notion_data_jsonb"] # "null"

(***************************************************************************)
(* Relation materializer: configuration and names                          *)
(***************************************************************************)
\* notion_database_list.json: database id -> supabase_table; dX is an id the
\* list does not hold
DbIds == {"dP", "dU", "dX"}
DatabaseList == [dP |-> "posts", dU |-> "users"]
FieldNames == {"f", "g"}

\* db_mapping.get(id, {}).get('supabase_table', 'unknown')
SupabaseTable(db) == IF db \in DOMAIN DatabaseList THEN DatabaseList[db] ELSE "unknown"

\* f"{a}_to_{b}", f"{t}_relations", f"{t}_notion_id"
ToName ==
    [posts   |-> [posts |-> "posts_to_posts", users |-> "posts_to_users",
                  unknown |-> "posts_to_unknown"],
     users   |-> [posts |-> "users_to_posts", users |-> "users_to_users",
                  unknown |-> "users_to_unknown"],
     unknown |-> [posts |-> "unknown_to_posts", users |-> "unknown_to_users",
                  unknown |-> "unknown_to_unknown"]]
RelationsName ==
    [posts |-> "posts_relations", users |-> "users_relations",
     unknown |-> "unknown_relations"]
NotionIdCol ==
    [posts |-> "posts_notion_id", users |-> "users_notion_id",
     unknown |-> "unknown_notion_id"]

\* variant: the pair as the relation lists it
UnsortedName(a, b) == ToName[a][b]

\* sorted([a, b]) on the table names
TableRank == [posts |-> 1, unknown |-> 2, users |-> 3]
SortedName(a, b) == IF TableRank[a] <= TableRank[b] THEN ToName[a][b] ELSE ToName[b][a]

OriginTable(sp) == SupabaseTable(sp.origin)
RelatedTable(sp) == SupabaseTable(sp.related)

(***************************************************************************)
(* drop_junction_tables                                                    *)
(***************************************************************************)
DropNames(sp, d) ==
    IF OriginTable(sp) = RelatedTable(sp) THEN {RelationsName[OriginTable(sp)]}
    ELSE IF d THEN {SortedName(OriginTable(sp), RelatedTable(sp))}
    ELSE {ToName[OriginTable(sp)][RelatedTable(sp)],
          ToName[RelatedTable(sp)][OriginTable(sp)]}

JunctionTablesToDrop(specs, d) == UNION {DropNames(specs[i], d) : i \in 1..Len(specs)}

Restrict(f, S) == [x \in S |-> f[x]]

DropTables(tables, names) == Restrict(tables, DOMAIN tables \ names)

(***************************************************************************)
(* create_junction_tables: CREATE TABLE IF NOT EXISTS, one or two tables  *)
(* per spec, in the order of the configuration.                            *)
(***************************************************************************)
SelfCols == <<"source_notion_id", "target_notion_id", "relation_field_name">>
CrossCols(a, b) == <<NotionIdCol[a], "relation_field_name", NotionIdCol[b]>>

\* variant: a self-referential relation created as a cross-table one
CreateStatementsCross(sp, d) ==
    LET o == OriginTable(sp)
        r == RelatedTable(sp)
    IN IF d \/ o = r THEN <<[name |-> ToName[o][r], cols |-> CrossCols(o, r)]>>
       ELSE <<[name |-> ToName[o][r], cols |-> CrossCols(o, r)],
              [name |-> ToName[r][o], cols |-> CrossCols(r, o)]>>

\* the (name, columns) pairs the spec issues CREATE TABLE IF NOT EXISTS for
CreateStatements(sp, d) ==
    LET o == OriginTable(sp)
        r == RelatedTable(sp)
    IN IF o = r THEN <<[name |-> RelationsName[o], cols |-> SelfCols]>>
       ELSE IF d THEN <<[name |-> SortedName(o, r), cols |-> CrossCols(o, r)]>>
       ELSE <<[name |-> ToName[o][r], cols |-> CrossCols(o, r)],
              [name |-> ToName[r][o], cols |-> CrossCols(r, o)]>>

CreateIfNotExists(tables, st) ==
    IF st.name \in DOMAIN tables THEN tables
    ELSE Merge(tables, [n \in {st.name} |-> [cols |-> st.cols, rows |-> EmptyFcn]])

RECURSIVE CreateEach(_, _, _)
CreateEach(tables, sts, i) ==
    IF i > Len(sts) THEN tables
    ELSE CreateEach(CreateIfNotExists(tables, sts[i]), sts, i + 1)

RECURSIVE CreateJunctions(_, _, _, _, _)
\* specs i..upTo
CreateJunctions(tables, specs, d, i, upTo) ==
    IF i > upTo THEN tables
    ELSE CreateJunctions(CreateEach(tables, CreateStatements(specs[i], d), 1),
                         specs, d, i + 1, upTo)

(***************************************************************************)
(* populate_master_relations_table: one record per relation; the junction  *)
(* name recorded is the self-referential or the sorted one.                *)
(***************************************************************************)
MasterRecord(sp) ==
    [origin_supabase_table |-> OriginTable(sp),
     relation_field_name |-> sp.field,
     related_supabase_table |-> RelatedTable(sp),
     junction_table_name |->
        IF OriginTable(sp) = RelatedTable(sp) THEN RelationsName[OriginTable(sp)]
        ELSE SortedName(OriginTable(sp), RelatedTable(sp))]

MasterRecords(specs) == [i \in 1..Len(specs) |-> MasterRecord(specs[i])]

\* the relations whose related database id the list does not hold (warning)
UnknownRelated(specs) == {i \in 1..Len(specs) : specs[i].related \notin DOMAIN DatabaseList}

(***************************************************************************)
(* extract_relations_from_source_tables                                    *)
(***************************************************************************)
NullBlob == [null |-> TRUE, data |-> EmptyFcn]

\* WHERE notion_data_jsonb->field IS NOT NULL AND jsonb_typeof(..) = 'array'
\*   AND jsonb_array_length(..) > 0
Selected(blob, field) ==
    /\ ~blob.null
    /\ field \in DOMAIN blob.data
    /\ blob.data[field].kind = "array"
    /\ Len(blob.data[field].elems) > 0

\* one <<notion_id, position>> per element: jsonb_array_elements_text
Emitted(rows, field) ==
    UNION {{<<id, i>> : i \in 1..Len(rows[id].data[field].elems)} :
              id \in {x \in DOMAIN rows : Selected(rows[x], field)}}

\* variant: the INSERT goes to the sorted name under either policy
InsertTargetSorted(sp, d) ==
    LET o == OriginTable(sp)
        r == RelatedTable(sp)
    IN IF o = r
       THEN [name |-> RelationsName[o], from |-> "source_notion_id",
             to |-> "target_notion_id"]
       ELSE [name |-> IF TableRank[o] <= TableRank[r] THEN ToName[o][r] ELSE ToName[r][o],
             from |-> NotionIdCol[o], to |-> NotionIdCol[r]]

\* the junction table and the column mapping of the INSERT of a spec
InsertTarget(sp, d) ==
    LET o == OriginTable(sp)
        r == RelatedTable(sp)
    IN IF o = r
       THEN [name |-> RelationsName[o], from |-> "source_notion_id",
             to |-> "target_notion_id"]
       ELSE [name |-> IF d THEN SortedName(o, r) ELSE ToName[o][r],
             from |-> NotionIdCol[o], to |-> NotionIdCol[r]]

JunctionRow(tg, id, field, elem) ==
    Merge(Merge([c \in {tg.from} |-> id], [c \in {"relation_field_name"} |-> field]),
          [c \in {tg.to} |-> elem])

\* variant: no uniqueness constraint, every emission is stored
InsertEvery(bag, row) ==
    IF row \in DOMAIN bag THEN [bag EXCEPT ![row] = @ + 1]
    ELSE Merge(bag, [r \in {row} |-> 1])

\* ON CONFLICT (the three columns) DO NOTHING
InsertDoNothing(bag, row) ==
    IF row \in DOMAIN bag THEN bag ELSE Merge(bag, [r \in {row} |-> 1])

RECURSIVE InsertSelect(_, _, _, _, _)
InsertSelect(bag, todo, rows, sp, tg) ==
    IF todo = {} THEN bag
    ELSE LET e == CHOOSE x \in todo : TRUE
             row == JunctionRow(tg, e[1], sp.field, rows[e[1]].data[sp.field].elems[e[2]])
         IN InsertSelect(InsertDoNothing(bag, row), todo \ {e}, rows, sp, tg)

\* skipped: the base table of the origin is absent or holds no row with a blob
OriginSkipped(org, sp) ==
    \/ OriginTable(sp) \notin DOMAIN org
    \/ \A id \in DOMAIN org[OriginTable(sp)].rows : org[OriginTable(sp)].rows[id].null

\* the INSERT raises: no such table, or no such column
InsertRaises(tables, tg) ==
    \/ tg.name \notin DOMAIN tables
    \/ ~({tg.from, tg.to} \subseteq {tables[tg.name].cols[k] : k \in DOMAIN tables[tg.name].cols})

ExtractOne(tables, org, sp, d) ==
    LET tg == InsertTarget(sp, d)
        rows == org[OriginTable(sp)].rows
    IN [tables EXCEPT ![tg.name].rows =
            InsertSelect(@, Emitted(rows, sp.field), rows, sp, tg)]

\* the indexes of the specs an INSERT is executed for
Attempted(org, specs) ==
    {i \in 1..Len(specs) :
        ~OriginSkipped(org, specs[i]) /\ specs[i].related \in DOMAIN DatabaseList}

RECURSIVE ExtractAll(_, _, _, _, _, _)
\* dbErr: the specs whose INSERT the database refuses for a reason of its own
ExtractAll(tables, org, specs, d, dbErr, i) ==
    IF i > Len(specs) THEN tables
    ELSE IF i \in Attempted(org, specs) /\ i \notin dbErr
              /\ ~InsertRaises(tables, InsertTarget(specs[i], d))
         THEN ExtractAll(ExtractOne(tables, org, specs[i], d), org, specs, d, dbErr, i + 1)
         ELSE ExtractAll(tables, org, specs, d, dbErr, i + 1)

(***************************************************************************)
(* create_all_relations, one action per step.  A step whose database       *)
(* statement raises returns False and the run ends there.                  *)
(***************************************************************************)
NoMaster == [exists |-> FALSE, rows |-> <<>>]
NoHistory == [i \in 1..Len(relSpecs) |-> {}]

EndRun(ok) ==
    /\ rpc' = "idle"
    /\ runResult' = IF ok THEN "ok" ELSE "failed"

\* n statements of the step are refused by the database
Refused(n) ==
    /\ dbFailures + n <= MaxDbFailures
    /\ dbFailures' = dbFailures + n

\* lines 701-710: connect, load the configuration
StartPass(d) ==
    /\ rpc = "idle"
    /\ passes < MaxPasses
    /\ passes' = passes + 1
    /\ dedup' = d
    /\ fresh' = TRUE
    /\ droppedNames' = {}
    /\ createdFor' = NoHistory
    /\ insertedFor' = NoHistory
    /\ warnedFor' = {}
    /\ failedFor' = {}
    /\ IF relSpecs = <<>>
       THEN EndRun(FALSE)
       ELSE rpc' = "drop_master" /\ runResult' = "running"
    /\ UNCHANGED <<relSpecs, origin, jt, master, originChanges, dbFailures>>
    /\ UNCHANGED notRel

\* step 2: drop_relations_table
DropRelationsTable(ok) ==
    /\ Refused(IF ok THEN 0 ELSE 1)
    /\ rpc = "drop_master"
    /\ IF ok
       THEN master' = NoMaster /\ rpc' = "drop_junction" /\ UNCHANGED runResult
       ELSE EndRun(FALSE) /\ UNCHANGED master
    /\ UNCHANGED <<relSpecs, origin, jt, dedup, passes, originChanges, droppedNames,
                   createdFor, insertedFor, warnedFor, failedFor, fresh>>
    /\ UNCHANGED notRel

\* step 3: drop_junction_tables
DropJunctionTables(ok) ==
    /\ Refused(IF ok THEN 0 ELSE 1)
    /\ rpc = "drop_junction"
    /\ IF ok
       THEN /\ jt' = DropTables(jt, JunctionTablesToDrop(relSpecs, dedup))
            /\ droppedNames' = JunctionTablesToDrop(relSpecs, dedup)
            /\ rpc' = "create_master"
            /\ UNCHANGED runResult
       ELSE EndRun(FALSE) /\ UNCHANGED <<jt, droppedNames>>
    /\ UNCHANGED <<relSpecs, origin, master, dedup, passes, originChanges,
                   createdFor, insertedFor, warnedFor, failedFor, fresh>>
    /\ UNCHANGED notRel

\* step 4: create_master_relations_table (CREATE TABLE IF NOT EXISTS)
CreateMasterRelationsTable(ok) ==
    /\ Refused(IF ok THEN 0 ELSE 1)
    /\ rpc = "create_master"
    /\ IF ok
       THEN /\ master' = [master EXCEPT !.exists = TRUE]
            /\ rpc' = "populate_master"
            /\ UNCHANGED runResult
       ELSE EndRun(FALSE) /\ UNCHANGED master
    /\ UNCHANGED <<relSpecs, origin, jt, dedup, passes, originChanges, droppedNames,
                   createdFor, insertedFor, warnedFor, failedFor, fresh>>
    /\ UNCHANGED notRel

\* step 5: populate_master_relations_table
PopulateMasterRelationsTable(ok) ==
    /\ Refused(IF ok THEN 0 ELSE 1)
    /\ rpc = "populate_master"
    /\ IF ok /\ master.exists
       THEN /\ master' = [master EXCEPT !.rows = @ \o MasterRecords(relSpecs)]
            /\ warnedFor' = warnedFor \cup UnknownRelated(relSpecs)
            /\ rpc' = "create_junction"
            /\ UNCHANGED runResult
       ELSE EndRun(FALSE) /\ UNCHANGED <<master, warnedFor>>
    /\ UNCHANGED <<relSpecs, origin, jt, dedup, passes, originChanges, droppedNames,
                   createdFor, insertedFor, failedFor, fresh>>
    /\ UNCHANGED notRel

\* step 6: create_junction_tables; failAt = 0: no statement raises, else the
\* CREATE of spec failAt raises after those of the specs before it
CreateJunctionTables(failAt) ==
    /\ Refused(IF failAt = 0 THEN 0 ELSE 1)
    /\ rpc = "create_junction"
    /\ LET done == IF failAt = 0 THEN Len(relSpecs) ELSE failAt - 1
       IN /\ jt' = CreateJunctions(jt, relSpecs, dedup, 1, done)
          /\ createdFor' = [i \in 1..Len(relSpecs) |->
                IF i <= done
                THEN {CreateStatements(relSpecs[i], dedup)[k].name :
                        k \in DOMAIN CreateStatements(relSpecs[i], dedup)}
                ELSE {}]
    /\ IF failAt = 0
       THEN rpc' = "extract" /\ UNCHANGED runResult
       ELSE EndRun(FALSE)
    /\ UNCHANGED <<relSpecs, origin, master, dedup, passes, originChanges,
                   droppedNames, insertedFor, warnedFor, failedFor, fresh>>
    /\ UNCHANGED notRel

\* step 7: extract_relations_from_source_tables; an INSERT that raises is
\* logged and the loop continues
ExtractRelations(dbErr) ==
    /\ Refused(Cardinality(dbErr))
    /\ rpc = "extract"
    /\ dbErr \subseteq Attempted(origin, relSpecs)
    /\ jt' = ExtractAll(jt, origin, relSpecs, dedup, dbErr, 1)
    /\ failedFor' = dbErr \cup
          {i \in Attempted(origin, relSpecs) : InsertRaises(jt, InsertTarget(relSpecs[i], dedup))}
    /\ insertedFor' = [i \in 1..Len(relSpecs) |->
          IF i \in Attempted(origin, relSpecs) \ failedFor'
          THEN {InsertTarget(relSpecs[i], dedup).name} ELSE {}]
    /\ warnedFor' = warnedFor \cup
          {i \in UnknownRelated(relSpecs) : ~OriginSkipped(origin, relSpecs[i])}
    /\ EndRun(TRUE)
    /\ UNCHANGED <<relSpecs, origin, master, dedup, passes, originChanges,
                   droppedNames, createdFor, fresh>>
    /\ UNCHANGED notRel

\* the overflow blobs a row of a base table may hold
BlobChoices ==
    {NullBlob,
     [null |-> FALSE, data |-> [f |-> [kind |-> "array", elems |-> <<"A", "A", "B">>],
                                g |-> [kind |-> "array", elems |-> <<"A">>]]],
     [null |-> FALSE, data |-> [f |-> [kind |-> "object", elems |-> <<>>],
                                g |-> [kind |-> "array", elems |-> <<"B">>]]],
     [null |-> FALSE, data |-> [f |-> [kind |-> "array", elems |-> <<>>],
                                g |-> [kind |-> "array", elems |-> <<"A", "B">>]]]}

\* what a later sync cycle leaves in the blob: nothing, or other relations
ChangeChoices ==
    {NullBlob,
     [null |-> FALSE, data |-> [f |-> [kind |-> "array", elems |-> <<"B", "C">>]]]}

\* between two passes a sync cycle rewrites the overflow blob of a row of a
\* base table (before the first pass the base tables hold any content)
OriginChange(t, id, b) ==
    /\ rpc = "idle"
    /\ passes > 0
    /\ originChanges < MaxOriginChanges
    /\ t \in DOMAIN origin
    /\ id \in DOMAIN origin[t].rows
    /\ origin[t].rows[id] # b
    /\ origin' = [origin EXCEPT ![t].rows[id] = b]
    /\ originChanges' = originChanges + 1
    /\ fresh' = FALSE
    /\ UNCHANGED <<relSpecs, jt, master, rpc, dedup, runResult, passes, dbFailures,
                   droppedNames, createdFor, insertedFor, warnedFor, failedFor>>
    /\ UNCHANGED notRel

\* relation specs: the origin is a database of the list, the related one any id
SpecChoices == [origin : DOMAIN DatabaseList, field : FieldNames, related : DbIds]
ConfigChoices == UNION {[1..n -> SpecChoices] : n \in 1..MaxSpecs}

OriginChoices ==
    {Merge([t \in {"posts"} |-> [rows |-> [id \in {"p1", "p2"} |->
                                    IF id = "p1" THEN b1 ELSE b2]]], u) :
        b1 \in BlobChoices, b2 \in {NullBlob},
        u \in {EmptyFcn} \cup {[t \in {"users"} |-> [rows |-> [id \in {"u1"} |-> b3]]] :
                                  b3 \in BlobChoices}}

(***************************************************************************)
(* Properties of the relation materializer.  A pass is complete when the   *)
(* run returned True and the base tables are those the pass read.          *)
(***************************************************************************)
PassComplete == rpc = "idle" /\ runResult = "ok" /\ fresh

KnownSpecs == {i \in 1..Len(relSpecs) : relSpecs[i].related \in DOMAIN DatabaseList}
SelfSpecs == {i \in KnownSpecs : OriginTable(relSpecs[i]) = RelatedTable(relSpecs[i])}
CrossSpecs == {i \in KnownSpecs : OriginTable(relSpecs[i]) # RelatedTable(relSpecs[i])}

\* the facts of a relation in the base table of its origin: one per origin
\* row holding a non-empty array at the field and per distinct element
Facts(sp) ==
    IF OriginTable(sp) \notin DOMAIN origin THEN {}
    ELSE LET rows == origin[OriginTable(sp)].rows
         IN {<<id, e>> \in (DOMAIN rows) \X {"A", "B", "C"} :
                /\ ~rows[id].null
                /\ sp.field \in DOMAIN rows[id].data
                /\ rows[id].data[sp.field].kind = "array"
                /\ \E k \in DOMAIN rows[id].data[sp.field].elems :
                      rows[id].data[sp.field].elems[k] = e}

\* a fact as a row of a cross-table junction table and of a self-referential one
CrossRow(sp, x) ==
    [c \in {NotionIdCol[OriginTable(sp)], "relation_field_name",
            NotionIdCol[RelatedTable(sp)]} |->
        IF c = "relation_field_name" THEN sp.field
        ELSE IF c = NotionIdCol[OriginTable(sp)] THEN x[1] ELSE x[2]]
SelfRow(sp, x) ==
    [source_notion_id |-> x[1], target_notion_id |-> x[2], relation_field_name |-> sp.field]
FactRows(sp) ==
    IF OriginTable(sp) = RelatedTable(sp)
    THEN {SelfRow(sp, x) : x \in Facts(sp)}
    ELSE {CrossRow(sp, x) : x \in Facts(sp)}

\* the name of the junction table of a relation under the policy of the pass
JunctionOf(sp) ==
    IF OriginTable(sp) = RelatedTable(sp) THEN RelationsName[OriginTable(sp)]
    ELSE IF dedup THEN SortedName(OriginTable(sp), RelatedTable(sp))
    ELSE ToName[OriginTable(sp)][RelatedTable(sp)]

RowsWithField(name, field) ==
    {r \in DOMAIN jt[name].rows : r["relation_field_name"] = field}

\* the last run dropped the junction tables and filled the master table: it
\* went on to materialize the relations (steps 6 and 7)
ReachedJunctions == rpc = "idle" /\ droppedNames # {} /\ master.rows # <<>>

\* C22: Failure locality for relations. A failure while creating the
\* junction table of one relation or inserting its rows stays with that
\* relation: the run does not fail as a whole, at most the failing relation
\* lacks its junction table, and every other relation with rows to insert
\* is populated.
RelationFailureLocal ==
    ReachedJunctions =>
        /\ runResult = "ok"
        /\ Cardinality({i \in 1..Len(relSpecs) : createdFor[i] = {}}) <= dbFailures
        /\ fresh =>
              \A i \in KnownSpecs \ failedFor :
                  (createdFor[i] # {} /\ ~OriginSkipped(origin, relSpecs[i]))
                      => insertedFor[i] # {}

\* C30: Master relations table consistency. After a run under either
\* policy, the junction_table_name the master table records for a relation
\* is the name of the table the facts of that relation were inserted into.
MasterConsistent ==
    (rpc = "idle" /\ runResult = "ok") =>
        \A i \in 1..Len(relSpecs) :
            insertedFor[i] # {} =>
                insertedFor[i] = {master.rows[i].junction_table_name}

\* C5: Relation set semantics. After a pass in which no INSERT failed, the
\* junction table of every relation holds, for the field of the relation,
\* exactly the facts of the relations of that field it serves: one row per
\* origin row with a non-empty array at the field and per distinct element,
\* each stored once, and nothing for rows without the field or with an
\* empty or non-array value.
RelationSetSemantics ==
    (PassComplete /\ failedFor = {}) =>
        \A i \in KnownSpecs :
            LET name == JunctionOf(relSpecs[i])
                same == {j \in KnownSpecs : /\ JunctionOf(relSpecs[j]) = name
                                            /\ relSpecs[j].field = relSpecs[i].field}
            IN /\ name \in DOMAIN jt
               /\ RowsWithField(name, relSpecs[i].field) =
                     UNION {FactRows(relSpecs[j]) : j \in same}
               /\ \A r \in DOMAIN jt[name].rows : jt[name].rows[r] = 1

\* posts.f -> users over a row holding ["A","A","B"], a row with a NULL blob
\* and nothing else: two junction rows
RelationSetSemanticsWitness ==
    /\ PassComplete /\ failedFor = {}
    /\ Len(relSpecs) = 1
    /\ relSpecs[1] = [origin |-> "dP", field |-> "f", related |-> "dU"]
    /\ ~origin["posts"].rows["p1"].null
    /\ "f" \in DOMAIN origin["posts"].rows["p1"].data
    /\ origin["posts"].rows["p1"].data["f"].elems = <<"A", "A", "B">>
    /\ "posts_to_users" \in DOMAIN jt
    /\ Cardinality(DOMAIN jt["posts_to_users"].rows) = 2

\* C6: Under the deduplicate policy every relation between the two distinct
\* tables posts and users, in either direction and wherever it stands in the
\* configuration, is created as and inserted into the one table named by
\* the alphabetically ordered pair, posts_to_users, never users_to_posts,
\* and after the pass that table holds the facts of both directions.
DedupSingleTable ==
    (PassComplete /\ dedup /\ failedFor = {}) =>
        \A i \in CrossSpecs :
            /\ createdFor[i] = {"posts_to_users"}
            /\ insertedFor[i] \subseteq {"posts_to_users"}
            /\ ~OriginSkipped(origin, relSpecs[i]) => insertedFor[i] = {"posts_to_users"}
            /\ "posts_to_users" \in DOMAIN jt
            /\ FactRows(relSpecs[i]) \subseteq DOMAIN jt["posts_to_users"].rows

\* users.f -> posts listed before posts.f -> users, both with facts
DedupSingleTableWitness ==
    /\ PassComplete /\ dedup /\ failedFor = {}
    /\ Len(relSpecs) = 2
    /\ relSpecs[1] = [origin |-> "dU", field |-> "f", related |-> "dP"]
    /\ relSpecs[2] = [origin |-> "dP", field |-> "f", related |-> "dU"]
    /\ FactRows(relSpecs[1]) # {} /\ FactRows(relSpecs[2]) # {}
    /\ "posts_to_users" \in DOMAIN jt
    /\ FactRows(relSpecs[1]) \cup FactRows(relSpecs[2]) = DOMAIN jt["posts_to_users"].rows
    /\ "users_to_posts" \notin DOMAIN jt

\* C7: Under the non-deduplicated policy a relation between two distinct
\* tables A and B yields the two tables A_to_B and B_to_A, and after the
\* pass each of them holds exactly the facts read from its own origin table:
\* A_to_B those of the relations of A to B, B_to_A those of the relations of
\* B to A (none when the configuration lists no relation of B to A).
DirectionalTables ==
    (PassComplete /\ ~dedup /\ failedFor = {}) =>
        \A i \in CrossSpecs :
            LET o == OriginTable(relSpecs[i])
                r == RelatedTable(relSpecs[i])
            IN /\ createdFor[i] = {ToName[o][r], ToName[r][o]}
               /\ {ToName[o][r], ToName[r][o]} \subseteq DOMAIN jt
               /\ DOMAIN jt[ToName[o][r]].rows =
                     UNION {FactRows(relSpecs[j]) :
                               j \in {k \in CrossSpecs : OriginTable(relSpecs[k]) = o}}
               /\ DOMAIN jt[ToName[r][o]].rows =
                     UNION {FactRows(relSpecs[j]) :
                               j \in {k \in CrossSpecs : OriginTable(relSpecs[k]) = r}}

\* posts.f -> users and users.g -> posts, both with facts, each in its table
DirectionalTablesWitness ==
    /\ PassComplete /\ ~dedup /\ failedFor = {}
    /\ Len(relSpecs) = 2
    /\ relSpecs[1] = [origin |-> "dP", field |-> "f", related |-> "dU"]
    /\ relSpecs[2] = [origin |-> "dU", field |-> "g", related |-> "dP"]
    /\ {"posts_to_users", "users_to_posts"} \subseteq DOMAIN jt
    /\ DOMAIN jt["posts_to_users"].rows # {}
    /\ DOMAIN jt["users_to_posts"].rows # {}
    /\ \A r \in DOMAIN jt["posts_to_users"].rows : r["relation_field_name"] = "f"
    /\ \A r \in DOMAIN jt["users_to_posts"].rows : r["relation_field_name"] = "g"

\* C8: Junction tables are recomputed. After any sequence of passes, with
\* either policy in each, every row of every junction table of the
\* destination is a fact of a configured relation in the current base
\* tables: no table keeps a row an earlier pass wrote.
NoStaleJunctionRows ==
    (PassComplete /\ failedFor = {}) =>
        \A n \in DOMAIN jt :
            \A r \in DOMAIN jt[n].rows :
                \E i \in KnownSpecs : r \in FactRows(relSpecs[i])

\* C9: A self-referential relation of table T is dropped as, created as and
\* inserted into T_relations with the columns (source_notion_id,
\* target_notion_id, relation_field_name); each triple is stored once; two
\* self-referential fields of T share the table, the rows of each being
\* those whose relation_field_name is the field.
SelfReferentialTable ==
    (PassComplete /\ dbFailures = 0) =>
        \A i \in SelfSpecs :
            LET n == RelationsName[OriginTable(relSpecs[i])]
            IN /\ n \in droppedNames
               /\ createdFor[i] = {n}
               /\ insertedFor[i] \subseteq {n}
               /\ ~OriginSkipped(origin, relSpecs[i]) => insertedFor[i] = {n}
               /\ n \in DOMAIN jt
               /\ jt[n].cols = <<"source_notion_id", "target_notion_id", "relation_field_name">>
               /\ RowsWithField(n, relSpecs[i].field) =
                     {SelfRow(relSpecs[i], x) : x \in Facts(relSpecs[i])}
               /\ \A r \in DOMAIN jt[n].rows : jt[n].rows[r] = 1

\* posts.f -> posts and posts.g -> posts, both with facts in posts_relations
SelfReferentialTableWitness ==
    /\ PassComplete /\ dbFailures = 0
    /\ Len(relSpecs) = 2
    /\ relSpecs[1] = [origin |-> "dP", field |-> "f", related |-> "dP"]
    /\ relSpecs[2] = [origin |-> "dP", field |-> "g", related |-> "dP"]
    /\ "posts_relations" \in DOMAIN jt
    /\ RowsWithField("posts_relations", "f") # {}
    /\ RowsWithField("posts_relations", "g") # {}
    /\ DOMAIN jt = {"posts_relations"}

\* C10: A relation whose related database id the list does not hold is
\* warned about and skipped: no junction table is created for it and no row
\* is inserted for it, and the run returns True.
UnknownRelatedSkipped ==
    (rpc = "idle" /\ runResult = "ok") =>
        \A i \in UnknownRelated(relSpecs) :
            /\ i \in warnedFor
            /\ createdFor[i] = {}
            /\ insertedFor[i] = {}

(***************************************************************************)
(* The sync runner: main, run_continuous, run_sync_cycle.                  *)
(* notion_supabase_sync imports load_db_config and get_db_connection from  *)
(* process.supabase_uploader (line 17), where they take no parameter and   *)
(* one parameter, and calls them with one and two positional arguments     *)
(* (lines 549-550).                                                        *)
(***************************************************************************)
\* def load_db_config():  /  def get_db_connection(db_config=None):
LoadDbConfigParams == 0
GetDbConnectionParams == 1

\* a call with more positional arguments than parameters raises TypeError
Binds(params, args) == Len(args) <= params

\* what the sync of one table meets
Outcomes == {"ok", "schema_failed", "query_failed", "ddl_raised", "write_raised"}

\* sync_database logs and returns on a failed schema or page fetch; the
\* exceptions of _create_or_alter_table and _upsert_rows pass through it
SyncDatabaseRaises(o) == o \in {"ddl_raised", "write_raised"}

RECURSIVE SyncEach(_, _, _, _)
\* lines 558-568: synced_count is incremented when sync_database returns
SyncEach(dbs, outs, i, count) ==
    IF i > Len(dbs) THEN count
    ELSE SyncEach(dbs, outs, i + 1,
                  IF SyncDatabaseRaises(outs[i]) THEN count ELSE count + 1)

NoCycle == [raised |-> FALSE, attempted |-> <<>>, forced |-> {}, synced |-> 0,
            reported |-> <<>>]

\* run_sync_cycle(force)
RunSyncCycleResult(force_full_sync, dbs, outs, env) ==
    IF \/ ~Binds(LoadDbConfigParams, <<"self.environment">>)
       \/ ~Binds(GetDbConnectionParams, <<"db_config", "self.environment">>)
    THEN [NoCycle EXCEPT !.raised = TRUE]
    ELSE IF env # "ok"
         THEN NoCycle
         ELSE [raised |-> FALSE,
               attempted |-> dbs,
               forced |-> IF force_full_sync THEN {dbs[i] : i \in 1..Len(dbs)} ELSE {},
               synced |-> SyncEach(dbs, outs, 1, 0),
               reported |-> <<SyncEach(dbs, outs, 1, 0), Len(dbs)>>]

\* main, lines 606-612: NotionSupabaseSync(...) reads config.json
Main ==
    /\ mpc = "start"
    /\ IF configState = "ok"
       THEN mpc' = "ready" /\ UNCHANGED exitStatus
       ELSE mpc' = "exited" /\ exitStatus' = "nonzero"
    /\ UNCHANGED <<once, fullSync, configState, dbEnv, databases, firstRun, cycles,
                   cycleForce, cycleOutcomes, cycleRaised, attempted, forcedTables,
                   syncedCount, reported>>
    /\ UNCHANGED notCyc

\* one run_sync_cycle, called by main (--once) or by run_continuous
RunSyncCycle(outs) ==
    /\ mpc = "ready"
    /\ cycles < MaxCycles
    /\ LET f == IF once THEN fullSync ELSE fullSync /\ firstRun
           r == RunSyncCycleResult(f, databases, outs, dbEnv)
       IN /\ cycleForce' = f
          /\ cycleOutcomes' = outs
          /\ cycleRaised' = r.raised
          /\ attempted' = r.attempted
          /\ forcedTables' = r.forced
          /\ syncedCount' = r.synced
          /\ reported' = r.reported
          /\ IF once
             THEN /\ mpc' = "exited"
                  /\ exitStatus' = IF r.raised THEN "nonzero" ELSE "zero"
                  /\ UNCHANGED firstRun
             ELSE /\ mpc' = "sleeping"
                  /\ firstRun' = IF r.raised THEN firstRun ELSE FALSE
                  /\ UNCHANGED exitStatus
    /\ cycles' = cycles + 1
    /\ UNCHANGED <<once, fullSync, configState, dbEnv, databases>>
    /\ UNCHANGED notCyc

\* run_continuous, lines 586-587: time.sleep(self.poll_every) ends
WakeUp ==
    /\ mpc = "sleeping"
    /\ mpc' = "ready"
    /\ UNCHANGED <<once, fullSync, configState, dbEnv, databases, exitStatus, firstRun,
                   cycles, cycleForce, cycleOutcomes, cycleRaised, attempted,
                   forcedTables, syncedCount, reported>>
    /\ UNCHANGED notCyc

\* main, lines 620-621: Ctrl-C is logged and main returns
KeyboardInterrupt ==
    /\ mpc \in {"ready", "sleeping"}
    /\ mpc' = "exited"
    /\ exitStatus' = "zero"
    /\ UNCHANGED <<once, fullSync, configState, dbEnv, databases, firstRun, cycles,
                   cycleForce, cycleOutcomes, cycleRaised, attempted, forcedTables,
                   syncedCount, reported>>
    /\ UNCHANGED notCyc

SummaryAccurate ==
    (cycles > 0 /\ dbEnv = "ok") =>
        reported = <<Cardinality({i \in 1..Len(databases) : cycleOutcomes[i] = "ok"}),
                     Len(databases)>>

\* C14: In continuous mode with --full-sync only the first pass is forced,
\* and in it only the first table; every later pass is incremental, also
\* when a pass ended with an error.
OnlyFirstPassForced ==
    /\ (~once /\ cycles >= 2) => ~cycleForce
    /\ Cardinality(forcedTables) <= 1

\* C18: Exit status of the sync runner. The process ends with a non-zero
\* status exactly when setup failed: config.json or the Notion credentials
\* are missing, or no destination connection can be obtained.
ExitStatusContract ==
    mpc = "exited" =>
        (exitStatus = "nonzero" <=> (configState # "ok" \/ dbEnv # "ok"))

\* C23: Fatal connection failure halts the run. When no destination
\* connection can be obtained, in once mode and in continuous mode alike,
\* no table is synced and no sync pass is started after the first.
ConnectionFailureHalts ==
    dbEnv # "ok" => (attempted = <<>> /\ syncedCount = 0 /\ cycles <= 1)

DatabaseLists == {<<>>, <<"posts">>, <<"posts", "users">>, <<"users", "posts">>}

CycStart ==
    /\ mpc = "start"
    /\ exitStatus = "none"
    /\ firstRun = TRUE
    /\ cycles = 0
    /\ cycleForce = FALSE
    /\ cycleOutcomes = <<>>
    /\ cycleRaised = FALSE
    /\ attempted = <<>>
    /\ forcedTables = {}
    /\ syncedCount = 0
    /\ reported = <<>>

CycIdle ==
    /\ once = TRUE
    /\ fullSync = FALSE
    /\ configState = "ok"
    /\ dbEnv = "ok"
    /\ databases = <<>>
    /\ CycStart

CycInit ==
    /\ once \in BOOLEAN
    /\ fullSync \in BOOLEAN
    /\ configState \in {"ok", "no_file", "no_token"}
    /\ dbEnv \in {"ok", "missing_env", "refused"}
    /\ databases \in DatabaseLists
    /\ CycStart

CycSteps ==
    \/ Main
    \/ \E outs \in [1..Len(databases) -> Outcomes] : RunSyncCycle(outs)
    \/ WakeUp
    \/ KeyboardInterrupt

(***************************************************************************)
(* _notion_api_call, called by callers that do not wait for one another.   *)
(* Each call sleeps, then issues its request; nothing is shared between    *)
(* the calls.                                                              *)
(***************************************************************************)
Callers == {"c1", "c2"}

\* time.sleep(0.35), in units of time of the model
RateDelay == 2

\* the request goes through, requests raises ConnectionError or Timeout,
\* raise_for_status raises HTTPError
RequestOutcomes == {"ok", "network_error", "http_error"}

\* variant: the exception of a failed request reaches the caller
ApiResultRaising(o) ==
    IF o = "ok" THEN [value |-> "json", raised |-> FALSE, requests |-> 1]
    ELSE [value |-> "nothing", raised |-> TRUE, requests |-> 1]

\* lines 94-106: one requests.get/post; RequestException is logged, None returned
ApiResult(o) ==
    IF o = "ok" THEN [value |-> "json", raised |-> FALSE, requests |-> 1]
    ELSE [value |-> "None", raised |-> FALSE, requests |-> 1]

\* a caller enters _notion_api_call: time.sleep starts
ApiCall(c) ==
    /\ apc[c] \in {"idle", "returned"}
    /\ calls[c] < MaxCalls
    /\ calls' = [calls EXCEPT ![c] = @ + 1]
    /\ apc' = [apc EXCEPT ![c] = "sleeping"]
    /\ sleepStart' = [sleepStart EXCEPT ![c] = now]
    /\ requests' = [requests EXCEPT ![c] = 0]
    /\ UNCHANGED <<now, outcome, returned, lastSent, minGap>>
    /\ UNCHANGED notApi

\* the sleep is over: the request is issued and the call returns
ApiRequest(c, o) ==
    /\ apc[c] = "sleeping"
    /\ now >= sleepStart[c] + RateDelay
    /\ LET r == ApiResult(o)
       IN /\ requests' = [requests EXCEPT ![c] = @ + r.requests]
          /\ returned' = [returned EXCEPT ![c] = r.value]
          /\ apc' = [apc EXCEPT ![c] = IF r.raised THEN "raised" ELSE "returned"]
    /\ outcome' = [outcome EXCEPT ![c] = o]
    /\ lastSent' = now
    /\ minGap' = IF lastSent = -1 THEN minGap ELSE Min({minGap, now - lastSent})
    /\ UNCHANGED <<now, sleepStart, calls>>
    /\ UNCHANGED notApi

TimePasses ==
    /\ now < MaxNow
    /\ now' = now + 1
    /\ UNCHANGED <<apc, sleepStart, calls, requests, outcome, returned, lastSent, minGap>>
    /\ UNCHANGED notApi

ApiIdle ==
    /\ now = 0
    /\ apc = [c \in Callers |-> "idle"]
    /\ sleepStart = [c \in Callers |-> 0]
    /\ calls = [c \in Callers |-> 0]
    /\ requests = [c \in Callers |-> 0]
    /\ outcome = [c \in Callers |-> "none"]
    /\ returned = [c \in Callers |-> "nothing"]
    /\ lastSent = -1
    /\ minGap = MaxNow + 1

ApiSteps ==
    \/ \E c \in Callers : ApiCall(c)
    \/ \E c \in Callers, o \in RequestOutcomes : ApiRequest(c, o)
    \/ TimePasses

\* C15: Rate limiting. Any two consecutive requests sent to the source
\* service are at least the fixed delay apart, also when two callers are in
\* the client at the same time.
RateLimited == minGap >= RateDelay

\* C16: Source client failure contract. No exception of a failed request
\* leaves the client: a network error or a non-2xx response is returned as
\* the error value None; and a call issues exactly one request.
ClientFailureContract ==
    \A c \in Callers :
        /\ apc[c] # "raised"
        /\ apc[c] = "returned" =>
              /\ requests[c] = 1
              /\ outcome[c] # "ok" => returned[c] = "None"

\* one caller got a non-2xx response, the other a network error
ClientFailureContractWitness ==
    /\ apc["c1"] = "returned" /\ outcome["c1"] = "http_error"
    /\ apc["c2"] = "returned" /\ outcome["c2"] = "network_error"
    /\ returned["c1"] = "None" /\ returned["c2"] = "None"
    /\ requests["c1"] = 1 /\ requests["c2"] = 1

(***************************************************************************)
(* social_api_client: process_all_endpoints and get_api_data               *)
(***************************************************************************)
retries == 5
backoff_times == <<30, 60, 120, 240, 480>>

EndpointLists ==
    {<<"linkedin_profile">>, <<"instagram_profile">>,
     <<"linkedin_profile", "instagram_profile">>,
     <<"instagram_profile", "linkedin_profile">>}

\* variant: a sleep follows every failed attempt
BackoffAfterEvery(a) == a < retries

\* "Only backoff if not the last attempt"
BackoffAfter(a) == a < retries - 1

\* process_all_endpoints moves to the next endpoint; skip: the file of today
\* exists and skip_existing is set
NextEndpoint(skip) ==
    /\ spc = "next"
    /\ ep <= Len(endpoints)
    /\ IF skip
       THEN /\ fetched' = [fetched EXCEPT ![ep] = "skipped"]
            /\ ep' = ep + 1
            /\ UNCHANGED spc
       ELSE /\ spc' = "attempt"
            /\ UNCHANGED <<fetched, ep>>
    /\ attempt' = 0
    /\ UNCHANGED <<endpoints, tried, waits>>
    /\ UNCHANGED notSoc

\* one round of for attempt in range(retries): the request and its result
Attempt(ok) ==
    /\ spc = "attempt"
    /\ attempt < retries
    /\ tried' = [tried EXCEPT ![ep] = @ + 1]
    /\ IF ok
       THEN /\ fetched' = [fetched EXCEPT ![ep] = "data"]
            /\ ep' = ep + 1
            /\ spc' = "next"
       ELSE IF BackoffAfter(attempt)
            THEN /\ spc' = "sleep"
                 /\ UNCHANGED <<fetched, ep>>
            ELSE /\ fetched' = [fetched EXCEPT ![ep] = "None"]
                 /\ ep' = ep + 1
                 /\ spc' = "next"
    /\ UNCHANGED <<endpoints, attempt, waits>>
    /\ UNCHANGED notSoc

\* time.sleep(backoff_times[attempt]), then the next round
Backoff ==
    /\ spc = "sleep"
    /\ waits' = [waits EXCEPT ![ep] = Append(@, backoff_times[attempt + 1])]
    /\ attempt' = attempt + 1
    /\ spc' = "attempt"
    /\ UNCHANGED <<endpoints, ep, tried, fetched>>
    /\ UNCHANGED notSoc

SocStart ==
    /\ ep = 1
    /\ spc = "next"
    /\ attempt = 0
    /\ tried = [i \in 1..Len(endpoints) |-> 0]
    /\ waits = [i \in 1..Len(endpoints) |-> <<>>]
    /\ fetched = [i \in 1..Len(endpoints) |-> "pending"]

SocIdle == endpoints = <<>> /\ SocStart

SocInit == endpoints \in EndpointLists /\ SocStart

SocSteps ==
    \/ \E skip \in BOOLEAN : NextEndpoint(skip)
    \/ \E ok \in BOOLEAN : Attempt(ok)
    \/ Backoff

\* C17 as stated: at most 5 attempts per endpoint, and an endpoint is given
\* up after the waits 30, 60, 120, 240 and 480 seconds.
BackoffFiveWaits ==
    \A i \in 1..Len(endpoints) :
        /\ tried[i] <= retries
        /\ fetched[i] = "None" => waits[i] = backoff_times

\* C17: Raw social-API fetch backoff. For one endpoint the fetch makes at
\* most 5 attempts and stops at the first success; each failed attempt but
\* the fifth is followed by a wait, of 30, 60, 120 and 240 seconds in that
\* order; after the fifth failure the endpoint is given up at once, with no
\* data (the 480 second wait is never taken).
BackoffFourWaits ==
    \A i \in 1..Len(endpoints) :
        /\ tried[i] <= retries
        /\ Len(waits[i]) <= retries - 1
        /\ waits[i] = SubSeq(backoff_times, 1, Len(waits[i]))
        /\ fetched[i] = "data" => Len(waits[i]) = tried[i] - 1
        /\ fetched[i] = "None" =>
              tried[i] = retries /\ waits[i] = <<30, 60, 120, 240>>
        /\ fetched[i] = "skipped" => tried[i] = 0

\* one endpoint given up after five failures, another fetched at its third
\* attempt
BackoffFourWaitsWitness ==
    \E i, j \in 1..Len(endpoints) :
        /\ fetched[i] = "None" /\ tried[i] = 5
        /\ fetched[j] = "data" /\ tried[j] = 3 /\ waits[j] = <<30, 60>>

(***************************************************************************)
(* _normalize_column_name and _transform_page_to_row on the names of the   *)
(* properties.  A name is a sequence of characters.                        *)
(***************************************************************************)
\* a lower-case letter, an upper-case letter, a blank, an underscore, a digit
Chars == {"a", "A", " ", "_", "1"}

\* str.lower, str.isalnum, str.isdigit and str.isspace on the characters of
\* the names of the model (letters, "1", " " and "_")
LowerCase == [A |-> "a", C |-> "c", D |-> "d", I |-> "i", N |-> "n"]
Lower(c) == IF c \in DOMAIN LowerCase THEN LowerCase[c] ELSE c
IsAlnum(c) == c \notin {" ", "_"}
IsDigit(c) == c = "1"
IsSpace(c) == c = " "

RECURSIVE LStrip(_)
LStrip(n) == IF n # <<>> /\ IsSpace(Head(n)) THEN LStrip(Tail(n)) ELSE n
RECURSIVE RStrip(_)
RStrip(n) ==
    IF n # <<>> /\ IsSpace(n[Len(n)]) THEN RStrip(SubSeq(n, 1, Len(n) - 1)) ELSE n
Strip(n) == RStrip(LStrip(n))

\* c if c.isalnum() or c == "_" else "_"
Underscored(n) == [i \in 1..Len(n) |-> IF IsAlnum(n[i]) \/ n[i] = "_" THEN n[i] ELSE "_"]

RECURSIVE Collapse(_)
\* while "__" in normalized: normalized = normalized.replace("__", "_")
Collapse(n) ==
    IF \E i \in 1..(Len(n) - 1) : n[i] = "_" /\ n[i + 1] = "_"
    THEN LET i == Min({j \in 1..(Len(n) - 1) : n[j] = "_" /\ n[j + 1] = "_"})
         IN Collapse(SubSeq(n, 1, i) \o SubSeq(n, i + 2, Len(n)))
    ELSE n

NormalizeColumnName(name) ==
    LET lowered == Strip([i \in 1..Len(name) |-> Lower(name[i])])
        normalized == Collapse(Underscored(lowered))
        prefixed == IF normalized # <<>> /\ IsDigit(normalized[1])
                    THEN <<"c", "o", "l", "_">> \o normalized
                    ELSE normalized
    IN IF prefixed = <<>>
       THEN <<"u", "n", "n", "a", "m", "e", "d", "_", "c", "o", "l", "u", "m", "n">>
       ELSE prefixed

\* the keys of the system columns
NotionIdKey == <<"n", "o", "t", "i", "o", "n", "_", "i", "d">>
CreatedTimeKey == <<"c", "r", "e", "a", "t", "e", "d", "_", "t", "i", "m", "e">>
LastEditedTimeKey ==
    <<"l", "a", "s", "t", "_", "e", "d", "i", "t", "e", "d", "_", "t", "i", "m", "e">>
ArchivedKey == <<"a", "r", "c", "h", "i", "v", "e", "d">>

\* the page of the call
NormPage == [id |-> "r1", created_time |-> "t1", last_edited_time |-> "t2",
             archived |-> "false"]

SystemRow ==
    Merge(Merge([k \in {NotionIdKey} |-> NormPage.id],
                [k \in {CreatedTimeKey} |-> NormPage.created_time]),
          Merge([k \in {LastEditedTimeKey} |-> NormPage.last_edited_time],
                [k \in {ArchivedKey} |-> NormPage.archived]))

RECURSIVE AssignProps(_, _, _)
\* row[col_name] = value for the scalar properties, in the order of the dict
AssignProps(row, props, i) ==
    IF i > Len(props) THEN row
    ELSE AssignProps(Merge(row, [k \in {NormalizeColumnName(props[i].name)} |->
                                    props[i].value]),
                     props, i + 1)

TransformPage ==
    /\ npc = "page"
    /\ nRow' = AssignProps(SystemRow, nProps, 1)
    /\ npc' = "row"
    /\ UNCHANGED nProps
    /\ UNCHANGED notNrm

\* property names: any short name over Chars, or one of three longer names
ShortNames == UNION {[1..n -> Chars] : n \in 1..MaxNameLen}
LongNames ==
    {<<"A", "r", "c", "h", "i", "v", "e", "d">>,
     <<"N", "o", "t", "i", "o", "n", " ", "I", "D">>,
     <<"C", "r", "e", "a", "t", "e", "d", " ", "t", "i", "m", "e">>}
NameChoices == ShortNames \cup LongNames

\* one or two scalar properties with distinct names
PropertyChoices ==
    {<<[name |-> a, value |-> "v1"]>> : a \in NameChoices}
    \cup UNION {{<<[name |-> a, value |-> "v1"], [name |-> b, value |-> "v2"]>> :
                    b \in NameChoices \ {a}} :
                 a \in LongNames \cup {<<"a", " ", "a">>, <<"a">>, <<"1">>}}

NrmStart == nRow = EmptyFcn /\ npc = "page"
NrmIdle == nProps = <<>> /\ NrmStart
NrmInit == nProps \in PropertyChoices /\ NrmStart
NrmSteps == TransformPage

\* C29: Normalization keeps the system columns and the field values apart.
\* The row carries the identifier, the creation time, the modification time
\* and the archived flag of the page, and the value of every scalar field
\* in the column of that field: no field overwrites a system column or the
\* value of another field.
NormalizationApart ==
    npc = "row" =>
        /\ nRow[NotionIdKey] = NormPage.id
        /\ nRow[CreatedTimeKey] = NormPage.created_time
        /\ nRow[LastEditedTimeKey] = NormPage.last_edited_time
        /\ nRow[ArchivedKey] = NormPage.archived
        /\ \A i \in 1..Len(nProps) :
              nRow[NormalizeColumnName(nProps[i].name)] = nProps[i].value

(***************************************************************************)
(* One call of _upsert_rows, batch by batch, on the table that             *)
(* _create_or_alter_table prepared for the rows of the call.               *)
(***************************************************************************)
WriteIds == <<"r1", "r2", "r3", "r4">>

\* the pages of the call: each carries property p with an int or a str, or
\* does not carry it
PropChoices == {EmptyFcn} \cup [{"p"} -> {"i1", "tx"}]

RowChoices ==
    UNION {{[k \in 1..n |->
                TransformPageToRow(WriteIds[k], [ctime |-> 1, mtime |-> 1, props |-> f[k]])] :
              f \in [1..n -> PropChoices]} : n \in 0..MaxRecords}

\* the table before the sync: absent, or holding r2 with the number 1 in p
ExistingTable ==
    UpsertOne([exists |-> TRUE,
               cols |-> Merge([c \in {"p"} |-> "bigint"], SystemTypes),
               rows |-> {}],
              TransformPageToRow("r2", [ctime |-> 1, mtime |-> 1, props |-> [p |-> "i1"]]))

\* records[i:i + batch_size]
BatchAt(i) == SubSeq(wRows, i, Min({i + batch_size - 1, Len(wRows)}))
\* i//batch_size + 1 for the 0-based i of the code
BatchNumber(i) == ((i - 1) \div batch_size) + 1

\* lines 366-369: no rows, return 0
UpsertCall ==
    /\ wpc = "call"
    /\ IF wRows = <<>>
       THEN wpc' = "returned" /\ returnedCount' = 0
       ELSE wpc' = "batches" /\ UNCHANGED returnedCount
    /\ UNCHANGED <<wRows, wPre, wTbl, wi, total_upserted, executed, loggedBatch,
                   loggedRecord>>
    /\ UNCHANGED notWrt

\* lines 435-447: one round of the loop over the batches
ExecuteBatch ==
    /\ wpc = "batches"
    /\ wi <= Len(wRows)
    /\ LET res == ExecuteMany(wTbl, DOMAIN wRows[1], BatchAt(wi), 1)
       IN /\ wTbl' = res.tbl
          /\ executed' = executed \cup {BatchNumber(wi)}
          /\ IF res.ok
             THEN /\ total_upserted' = total_upserted + Len(BatchAt(wi))
                  /\ wi' = wi + batch_size
                  /\ UNCHANGED <<wpc, loggedBatch, loggedRecord>>
             ELSE /\ loggedBatch' = BatchNumber(wi)
                  /\ loggedRecord' = RecordOf(DOMAIN wRows[1], BatchAt(wi)[1])
                  /\ wpc' = "raised"
                  /\ UNCHANGED <<total_upserted, wi>>
    /\ UNCHANGED <<wRows, wPre, returnedCount>>
    /\ UNCHANGED notWrt

\* line 449: return total_upserted
UpsertReturn ==
    /\ wpc = "batches"
    /\ wi > Len(wRows)
    /\ wpc' = "returned"
    /\ returnedCount' = total_upserted
    /\ UNCHANGED <<wRows, wPre, wTbl, wi, total_upserted, executed, loggedBatch,
                   loggedRecord>>
    /\ UNCHANGED notWrt

WrtStart ==
    /\ wpc = "call"
    /\ wi = 1
    /\ total_upserted = 0
    /\ returnedCount = -1
    /\ executed = {}
    /\ loggedBatch = 0
    /\ loggedRecord = <<>>

WrtIdle == wRows = <<>> /\ wPre = NoTable /\ wTbl = NoTable /\ WrtStart

\* sync_database calls _create_or_alter_table, then _upsert_rows
WrtInit ==
    /\ wRows \in RowChoices
    /\ wPre \in {NoTable, ExistingTable}
    /\ wTbl = CreateOrAlterTable(wPre, wRows)
    /\ WrtStart

WrtSteps ==
    \/ UpsertCall
    \/ ExecuteBatch
    \/ UpsertReturn

\* the first record of the batch at wi that the table does not accept
Offending ==
    LET batch == BatchAt(wi)
        bad == {j \in 1..Len(batch) :
                  RecordFails(wTbl, RecordOf(DOMAIN wRows[1], batch[j]))}
    IN RecordOf(DOMAIN wRows[1], batch[Min(bad)])

\* C24: Write abort on batch failure. When batch i of a write fails the
\* error reaches the caller, the log names batch i and the first offending
\* row, no batch after i is executed, and the count covers the rows of the
\* batches before i only.
WriteAbortContract ==
    wpc = "raised" =>
        /\ returnedCount = -1
        /\ loggedBatch = Max(executed)
        /\ loggedRecord = Offending
        /\ executed = 1..loggedBatch
        /\ total_upserted = batch_size * (loggedBatch - 1)

\* C28: A write stores every column of every row. After a call that
\* returned, the destination holds for each row of the call one row with
\* every value the row carries, and a column the row does not carry is as it
\* was in the destination row before, also when the rows do not all have
\* the columns of the first one.
WriteStoresEveryColumn ==
    wpc = "returned" =>
        \A k \in 1..Len(wRows) :
            \E r \in RowsOf(wTbl, wRows[k]["notion_id"]) :
                /\ \A c \in DOMAIN wRows[k] : r[c] = Store(wTbl.cols[c], c, wRows[k][c])
                /\ \A old \in RowsOf(wPre, wRows[k]["notion_id"]) :
                      \A c \in DOMAIN old \ DOMAIN wRows[k] : r[c] = old[c]

RelIdle ==
    /\ jt = EmptyFcn
    /\ master = NoMaster
    /\ rpc = "idle"
    /\ dedup = TRUE
    /\ runResult = "none"
    /\ passes = 0
    /\ originChanges = 0
    /\ dbFailures = 0
    /\ droppedNames = {}
    /\ createdFor = <<>>
    /\ insertedFor = <<>>
    /\ warnedFor = {}
    /\ failedFor = {}
    /\ fresh = TRUE

SyncIdle ==
    /\ src = EmptyFcn
    /\ srcProps = {"p"}
    /\ clock = 1
    /\ edits = 0
    /\ tbl = NoTable
    /\ pc = "idle"
    /\ force = FALSE
    /\ lastSync = 0
    /\ allRows = <<>>
    /\ cursor = 0
    /\ syncs = 0
    /\ preTbl = NoTable
    /\ fetchOk = TRUE
    /\ writeOk = TRUE
    /\ wrote = FALSE
    /\ tainted = FALSE
    /\ quiet = 0
    /\ prevForce = FALSE
    /\ prevFetchOk = TRUE

RelInit ==
    /\ relSpecs \in ConfigChoices
    /\ origin \in OriginChoices
    /\ RelIdle
    /\ SyncIdle
    /\ CycIdle /\ ApiIdle /\ SocIdle /\ WrtIdle /\ NrmIdle

RelNext ==
    \/ \E d \in BOOLEAN : StartPass(d)
    \/ \E ok \in BOOLEAN : DropRelationsTable(ok)
    \/ \E ok \in BOOLEAN : DropJunctionTables(ok)
    \/ \E ok \in BOOLEAN : CreateMasterRelationsTable(ok)
    \/ \E ok \in BOOLEAN : PopulateMasterRelationsTable(ok)
    \/ \E failAt \in 0..Len(relSpecs) : CreateJunctionTables(failAt)
    \/ \E dbErr \in SUBSET (1..Len(relSpecs)) : ExtractRelations(dbErr)
    \/ \E t \in DOMAIN origin, id \in {"p1", "p2", "u1"}, b \in ChangeChoices :
          OriginChange(t, id, b)

RelSpec == RelInit /\ [][RelNext]_vars

RelQuiet == relSpecs = <<>> /\ origin = EmptyFcn /\ RelIdle

SyncInit ==
    /\ SyncStart
    /\ RelQuiet
    /\ CycIdle /\ ApiIdle /\ SocIdle /\ WrtIdle /\ NrmIdle

SyncNext == SyncSteps

SyncSpec == SyncInit /\ [][SyncNext]_vars

\* syncs of a database that grows between the first two syncs; sync_database
\* runs on: a response or a failure comes for every request, and the write
\* follows the last one
PagedNext ==
    \/ pc = "idle" /\ syncs = 1 /\ Tick
    \/ pc = "idle" /\ syncs = 1 /\ clock = MaxTime /\ \E id \in Ids : SrcCreate(id, "i1")
    \/ \E f \in BOOLEAN, schemaOk \in BOOLEAN : StartSync(f, schemaOk)
    \/ \E ok \in BOOLEAN : FetchPage(ok)
    \/ WriteRows

PagedSpec ==
    /\ SyncInit
    /\ [][PagedNext]_vars
    /\ WF_vars(\E ok \in BOOLEAN : FetchPage(ok))
    /\ WF_vars(WriteRows)

CycleInit == CycInit /\ SyncIdle /\ RelQuiet /\ ApiIdle /\ SocIdle /\ WrtIdle /\ NrmIdle
CycleNext == CycSteps
CycleSpec == CycleInit /\ [][CycleNext]_vars

ApiInit == ApiIdle /\ SyncIdle /\ RelQuiet /\ CycIdle /\ SocIdle /\ WrtIdle /\ NrmIdle
ApiNext == ApiSteps
ApiSpec == ApiInit /\ [][ApiNext]_vars

SocialInit == SocInit /\ SyncIdle /\ RelQuiet /\ CycIdle /\ ApiIdle /\ WrtIdle /\ NrmIdle
SocialNext == SocSteps
SocialSpec == SocialInit /\ [][SocialNext]_vars

WriteInit == WrtInit /\ SyncIdle /\ RelQuiet /\ CycIdle /\ ApiIdle /\ SocIdle /\ NrmIdle
WriteNext == WrtSteps
WriteSpec == WriteInit /\ [][WriteNext]_vars

NormInit == NrmInit /\ SyncIdle /\ RelQuiet /\ CycIdle /\ ApiIdle /\ SocIdle /\ WrtIdle
NormNext == NrmSteps
NormSpec == NormInit /\ [][NormNext]_vars

====
